---- MODULE Spec2Model ----
(***************************************************************************)
(* Royal Enfield Mechanic Assistant: the ingestion script                  *)
(* (ingest_and_index.py), the Streamlit app (app.py) and the REST search   *)
(* script (vector_searchrest.py).                                          *)
(*                                                                         *)
(* Strings that the code takes apart (blob names, chunk ids) are sequences *)
(* of one-character strings; texts that the code only passes on (chunk     *)
(* texts, questions, answers) are opaque values.                           *)
(***************************************************************************)
EXTENDS Integers, Sequences, FiniteSets, TLC

VARIABLES
    \* --- identifier derivation on its own (SpecIds)
    qpc, qDoc, qIdx, qId,
    \* --- the ingestion run (SpecIngest)
    env,        \* the settings that are set and non-empty in the environment
    container,  \* the blobs of the container, in listing order
    index,      \* the search index: a set of records, one per id
    index0,     \* the index as it was before the run (never changes)
    ipc,        \* where the ingestion script is
    bi,         \* position of fetch_and_extract_pdfs in the blob listing
    docs,       \* fetch_and_extract_pdfs' docs list
    di, ci,     \* position of chunk_and_index: document, chunk (1-based)
    batch,      \* chunk_and_index's batch list
    calls,      \* the external calls issued so far, in order
    \* --- the app session and the REST search script (SpecApp)
    apc,        \* where the app's script run is
    history,    \* st.session_state.history
    prompt,     \* the text input
    k,          \* the slider
    emb,        \* the query embedding
    hits,       \* vector_search's return value
    messages,   \* the messages of the completion request
    answer,     \* answer_with_gpt4o's return value
    outcome,    \* how the last script run ended
    rpc,        \* where vector_searchrest.py is
    rprinted,   \* the result lines it has printed
    rret,       \* what its vector_search returned
    served,     \* the "value" of the search service's last answer to the app
    rserved     \* the "value" of its last answer to the script

idVars     == <<qpc, qDoc, qIdx, qId>>
ingestVars == <<env, container, index, index0, ipc, bi, docs, di, ci, batch, calls>>
ingestOnly == <<container, index0, ipc, bi, docs, di, ci, batch>>
appVars    == <<apc, history, prompt, k, emb, hits, messages, answer, outcome,
                rpc, rprinted, rret, served, rserved>>
vars       == <<idVars, ingestVars, appVars>>

(* ------------------------------ bounds -------------------------------- *)
MaxStem       == 2   \* characters of a blob name before its extension
MaxChunkIndex == 11  \* largest chunk index whose id is derived in SpecIds
MaxBlobs      == 2   \* blobs in the container
MaxChunks     == 2   \* chunks the splitter cuts one document into

MaxTurns      == 2   \* turns of the conversation history
MaxIndexed    == 2   \* records in the index the app searches

(* ------------------------- program constants -------------------------- *)
KMin     == 1        \* the slider's range and default
KMax     == 8
KDefault == 4
RestK    == 5        \* the k vector_searchrest.py's main passes
SnippetLen == 200    \* characters of a hit's content the script prints

\* Python's None, and the value of a variable not yet assigned
NoValue == [none |-> TRUE]

(* --------------------------- characters ------------------------------- *)
Lower == {"a","b","c","d","e","f","g","h","i","j","k","l","m",
          "n","o","p","q","r","s","t","u","v","w","x","y","z"}
Upper == {"A","B","C","D","E","F","G","H","I","J","K","L","M",
          "N","O","P","Q","R","S","T","U","V","W","X","Y","Z"}
Digit == {"0","1","2","3","4","5","6","7","8","9"}

\* the class of the pattern r"[^A-Za-z0-9_-]", un-negated
AllowedChars == Lower \cup Upper \cup Digit \cup {"_", "-"}

LowerOf(c) ==
    CASE c = "P" -> "p" [] c = "D" -> "d" [] c = "F" -> "f"
      [] c = "A" -> "a" [] c = "Z" -> "z" [] OTHER -> c

\* str.lower() on the characters the model's names use
ToLower(s) == [j \in 1..Len(s) |-> LowerOf(s[j])]

\* s.endswith(suffix)
EndsWith(s, suffix) ==
    /\ Len(s) >= Len(suffix)
    /\ SubSeq(s, Len(s) - Len(suffix) + 1, Len(s)) = suffix

DotPdf == <<".", "p", "d", "f">>

\* the filter of the blob listing: blob.name.lower().endswith(".pdf")
IsPdfName(name) == EndsWith(ToLower(name), DotPdf)

\* p.rfind(c), 1-based, 0 when c does not occur
RFind(p, c) ==
    LET at == {j \in 1..Len(p) : p[j] = c}
    IN  IF at = {} THEN 0 ELSE CHOOSE j \in at : \A m \in at : m <= j

\* os.path.splitext(p)[0] (posixpath): cut at the last dot when it comes
\* after the last "/" and some character between the two is not a dot
SplitExtBase(p) ==
    LET sepIndex == RFind(p, "/")
        dotIndex == RFind(p, ".")
    IN  IF /\ dotIndex > sepIndex
           /\ \E j \in (sepIndex + 1)..(dotIndex - 1) : p[j] # "."
        THEN SubSeq(p, 1, dotIndex - 1)
        ELSE p

DigitChar(d) ==
    CASE d = 0 -> "0" [] d = 1 -> "1" [] d = 2 -> "2" [] d = 3 -> "3"
      [] d = 4 -> "4" [] d = 5 -> "5" [] d = 6 -> "6" [] d = 7 -> "7"
      [] d = 8 -> "8" [] d = 9 -> "9"

\* str(i) inside the f-string, i >= 0
RECURSIVE Decimal(_)
Decimal(i) ==
    IF i < 10 THEN <<DigitChar(i)>>
    ELSE Decimal(i \div 10) \o <<DigitChar(i % 10)>>

ChunkInfix == <<"_", "c", "h", "u", "n", "k", "_">>

\* raw_id = f"{base}_chunk_{i}"
RawId(docId, i) == SplitExtBase(docId) \o ChunkInfix \o Decimal(i)

\* re.sub(r"[^A-Za-z0-9_-]", "_", s)
\* (variant: the pattern also lets "." through)
SanitizeKeepsDots(s) ==
    [j \in 1..Len(s) |-> IF s[j] \in AllowedChars \cup {"."} THEN s[j] ELSE "_"]

Sanitize(s) ==
    [j \in 1..Len(s) |-> IF s[j] \in AllowedChars THEN s[j] ELSE "_"]

\* safe_id of chunk i (0-based) of document docId
SafeId(docId, i) == Sanitize(RawId(docId, i))

(* ------------------- identifier derivation (SpecIds) ------------------ *)
\* characters a blob name is drawn from: safe ones, and a dot, a space, a
\* parenthesis and a path separator
NameChars == {"a", "Z", "7", "_", "-", ".", " ", "(", "/"}

RECURSIVE SeqsUpTo(_, _)
SeqsUpTo(S, n) ==
    IF n = 0 THEN {<<>>}
    ELSE LET shorter == SeqsUpTo(S, n - 1)
         IN  shorter \cup {Append(s, c) : s \in shorter, c \in S}

PdfExts == {<<".", "p", "d", "f">>, <<".", "P", "D", "F">>}

\* the ids chunk_and_index is given: names that passed the .pdf filter
PdfNames == {stem \o ext : stem \in SeqsUpTo(NameChars, MaxStem), ext \in PdfExts}


\* lines 111-115 for one (document, chunk index)
DeriveId ==
    /\ qpc = "input"
    /\ \E i \in 0..MaxChunkIndex :
         /\ qIdx' = i
         /\ qId' = SafeId(qDoc, i)
    /\ qpc' = "derived"
    /\ UNCHANGED <<qDoc, ingestVars, appVars>>

(* ----------------------- ingestion (SpecIngest) ----------------------- *)
\* the settings the validation loop checks
IngestValidated ==
    {"AZURE_SEARCH_ENDPOINT", "AZURE_SEARCH_INDEX", "AZURE_SEARCH_API_KEY",
     "BLOB_ACCOUNT_URL", "BLOB_CONTAINER_NAME", "BLOB_ACCOUNT_KEY",
     "AZURE_EMBED_DEPLOYMENT"}

\* the settings chunk_and_index reads for the embedding client, unchecked
IngestOpenAI ==
    {"AZURE_OPENAI_ENDPOINT", "AZURE_OPENAI_API_VERSION", "AZURE_OPENAI_API_KEY"}

IngestSettings == IngestValidated \cup IngestOpenAI

\* an environment: every setting present, or exactly one missing or empty
EnvChoices(settings) == {settings} \cup {settings \ {s} : s \in settings}

\* blob names of the container: two whose ids differ only in a character
\* the sanitizer replaces, one with a space and parentheses and an
\* upper-case extension, and one that is no PDF
ContainerNames ==
    { <<"a", ".", "b", ".", "p", "d", "f">>,
      <<"a", "_", "b", ".", "p", "d", "f">>,
      <<"Z", " ", "(", "7", ")", ".", "P", "D", "F">>,
      <<"a", ".", "t", "x", "t">> }

\* the text of a valid PDF, as the segments the splitter cuts it into
\* (segment j of the blob named `name`)
TextOf(name, n) == [j \in 1..n |-> [doc |-> name, seg |-> j]]

\* a blob's bytes: a corrupt file, or a PDF with its text
BlobData(name) ==
    {[valid |-> FALSE, text |-> <<>>]}
        \cup {[valid |-> TRUE, text |-> TextOf(name, n)] : n \in 0..MaxChunks}

Blobs == UNION {{[name |-> nm, data |-> d] : d \in BlobData(nm)} : nm \in ContainerNames}

\* listings of at most MaxBlobs blobs with distinct names
Containers ==
    {c \in SeqsUpTo(Blobs, MaxBlobs) :
        \A m, n \in 1..Len(c) : m # n => c[m].name # c[n].name}

\* the embedding the endpoint returns for a text: a function of the text
VectorOf(text) == [embeddingOf |-> text]

\* openai.embeddings.create(model=EMBED_MODEL, input=inputs)
EmbeddingsCreate(inputs) ==
    [data |-> [j \in 1..Len(inputs) |-> [embedding |-> VectorOf(inputs[j])]]]

\* a record left in the index by an earlier run
OldRecord ==
    LET old == [doc |-> <<"o", "l", "d">>, seg |-> 1]
    IN  [id |-> SafeId(<<"a", ".", "b", ".", "p", "d", "f">>, 0),
         content |-> old, contentVector |-> VectorOf(old)]

\* the PdfReader / extract_text / "\n".join pipeline on valid bytes
ExtractText(data) == data.text

\* splitter.split_text(text): the chunks, in order
SplitText(text) == text

\* the next blob at or after position b that passes the .pdf filter
RECURSIVE NextPdf(_, _)
NextPdf(c, b) ==
    IF b > Len(c) \/ IsPdfName(c[b].name) THEN b ELSE NextPdf(c, b + 1)

\* the next (document, chunk) position at or after (d, c) that holds a chunk
RECURSIVE NextChunk(_, _, _)
NextChunk(dcs, d, c) ==
    IF d > Len(dcs) THEN <<d, 1>>
    ELSE IF c <= Len(SplitText(dcs[d].text)) THEN <<d, c>>
    ELSE NextChunk(dcs, d + 1, 1)

\* the record chunk_and_index appends for chunk i (0-based) of doc
\* (variant: the id counts chunks from 1)
ChunkRecordOneBased(doc, i, chunk) ==
    [id            |-> SafeId(doc.id, i + 1),
     content       |-> chunk,
     contentVector |-> EmbeddingsCreate(<<chunk>>).data[1].embedding]

ChunkRecord(doc, i, chunk) ==
    [id            |-> SafeId(doc.id, i),
     content       |-> chunk,
     contentVector |-> EmbeddingsCreate(<<chunk>>).data[1].embedding]

\* the index after upload_documents(documents=b): each record replaces the
\* one with its id, in batch order
RECURSIVE UploadDocuments(_, _)
UploadDocuments(idx, b) ==
    IF b = <<>> THEN idx
    ELSE UploadDocuments({r \in idx : r.id # Head(b).id} \cup {Head(b)}, Tail(b))

Call(op, ok) == [op |-> op, ok |-> ok]

\* lines 35-54, then __main__ up to the construction of the clients
IngestStartup ==
    /\ ipc = "start"
    /\ ipc' = IF IngestValidated \subseteq env THEN "list" ELSE "exit1"
    /\ UNCHANGED <<env, container, index, index0, bi, docs, di, ci, batch, calls>>
    /\ UNCHANGED <<idVars, appVars>>

\* where fetch_and_extract_pdfs goes on from blob position b with docs dcs
FetchOn(b, dcs) ==
    LET nb  == NextPdf(container, b)
        pos == NextChunk(dcs, 1, 1)
    IN  /\ bi' = nb
        /\ docs' = dcs
        /\ IF nb > Len(container)
           THEN ipc' = "chunk" /\ di' = pos[1] /\ ci' = pos[2]
           ELSE ipc' = "fetch" /\ UNCHANGED <<di, ci>>

\* container.list_blobs(), and the blobs skipped before the first PDF
ListBlobs ==
    /\ ipc = "list"
    /\ \E ok \in BOOLEAN :
         /\ calls' = Append(calls, Call("list_blobs", ok))
         /\ IF ok THEN FetchOn(1, docs)
            ELSE ipc' = "crashed_list" /\ UNCHANGED <<bi, docs, di, ci>>
    /\ UNCHANGED <<env, container, index, index0, batch>>
    /\ UNCHANGED <<idVars, appVars>>

\* one iteration of the loop of lines 79-91 on a .pdf blob
FetchBlob ==
    /\ ipc = "fetch"
    /\ LET blob == container[bi]
       IN  \E ok \in BOOLEAN :
             /\ calls' = Append(calls, Call("download_blob", ok))
             /\ IF ~ok
                THEN ipc' = "crashed_download" /\ UNCHANGED <<bi, docs, di, ci>>
                ELSE IF ~blob.data.valid
                THEN ipc' = "crashed_extract" /\ UNCHANGED <<bi, docs, di, ci>>
                ELSE FetchOn(bi + 1,
                        Append(docs, [id |-> blob.name, text |-> ExtractText(blob.data)]))
    /\ UNCHANGED <<env, container, index, index0, batch>>
    /\ UNCHANGED <<idVars, appVars>>

\* one iteration of the loop of lines 112-125
\* (variant: each record is uploaded as soon as it is embedded)
EmbedChunkUploadsEach ==
    /\ ipc = "chunk"
    /\ di <= Len(docs)
    /\ LET doc   == docs[di]
           chunk == SplitText(doc.text)[ci]
           pos   == NextChunk(docs, di, ci + 1)
           rec   == ChunkRecord(doc, ci - 1, chunk)
       IN  /\ calls' = calls \o <<Call("embed", TRUE), Call("upload_documents", TRUE)>>
           /\ batch' = Append(batch, rec)
           /\ index' = UploadDocuments(index, <<rec>>)
           /\ di' = pos[1] /\ ci' = pos[2]
           /\ UNCHANGED ipc
    /\ UNCHANGED <<env, container, index0, bi, docs>>
    /\ UNCHANGED <<idVars, appVars>>

EmbedChunk ==
    /\ ipc = "chunk"
    /\ di <= Len(docs)
    /\ LET doc   == docs[di]
           chunk == SplitText(doc.text)[ci]
           pos   == NextChunk(docs, di, ci + 1)
       IN  \E ok \in {b \in BOOLEAN : b => IngestOpenAI \subseteq env} :
             /\ calls' = Append(calls, Call("embed", ok))
             /\ IF ok
                THEN /\ batch' = Append(batch, ChunkRecord(doc, ci - 1, chunk))
                     /\ di' = pos[1] /\ ci' = pos[2]
                     /\ UNCHANGED ipc
                ELSE /\ ipc' = "crashed_embed"
                     /\ UNCHANGED <<batch, di, ci>>
    /\ UNCHANGED <<env, container, index, index0, bi, docs>>
    /\ UNCHANGED <<idVars, appVars>>

\* line 127, after the last chunk
Upload ==
    /\ ipc = "chunk"
    /\ di > Len(docs)
    /\ \E ok \in BOOLEAN :
         /\ calls' = Append(calls, Call("upload_documents", ok))
         /\ IF ok
            THEN index' = UploadDocuments(index, batch) /\ ipc' = "done"
            ELSE UNCHANGED index /\ ipc' = "crashed_upload"
    /\ UNCHANGED <<env, container, index0, bi, docs, di, ci, batch>>
    /\ UNCHANGED <<idVars, appVars>>

IngestNext == IngestStartup \/ ListBlobs \/ FetchBlob \/ EmbedChunk \/ Upload

\* the ingestion script is started; nothing else runs
IngestInit ==
    /\ env \in EnvChoices(IngestSettings)
    /\ container \in Containers
    /\ index \in {{}, {OldRecord}}
    /\ index0 = index
    /\ ipc = "start"
    /\ bi = 1 /\ docs = <<>> /\ di = 1 /\ ci = 1 /\ batch = <<>>
    /\ calls = <<>>
    /\ qpc = "off" /\ qDoc = <<>> /\ qIdx = 0 /\ qId = <<>>
    /\ apc = "off" /\ history = <<>> /\ prompt = <<>> /\ k = KDefault
    /\ emb = NoValue /\ hits = <<>> /\ messages = <<>> /\ answer = <<>>
    /\ outcome = "none"
    /\ rpc = "off" /\ rprinted = <<>> /\ rret = NoValue
    /\ served = <<>> /\ rserved = <<>>

SpecIngest == IngestInit /\ [][IngestNext]_vars

\* a document id is given to the derivation; nothing else runs
IdsInit ==
    /\ qpc = "input" /\ qDoc \in PdfNames /\ qIdx = 0 /\ qId = <<>>
    /\ env = {} /\ container = <<>> /\ index = {} /\ index0 = {}
    /\ ipc = "off"
    /\ bi = 1 /\ docs = <<>> /\ di = 1 /\ ci = 1 /\ batch = <<>>
    /\ calls = <<>>
    /\ apc = "off" /\ history = <<>> /\ prompt = <<>> /\ k = KDefault
    /\ emb = NoValue /\ hits = <<>> /\ messages = <<>> /\ answer = <<>>
    /\ outcome = "none"
    /\ rpc = "off" /\ rprinted = <<>> /\ rret = NoValue
    /\ served = <<>> /\ rserved = <<>>

IdsNext == DeriveId

SpecIds == IdsInit /\ [][IdsNext]_vars

(* --------------------- app and REST script (SpecApp) ------------------ *)
\* the settings app.py reads, none of them checked
AppSettings ==
    {"AZURE_SEARCH_ENDPOINT", "AZURE_SEARCH_INDEX", "AZURE_SEARCH_API_KEY",
     "AZURE_OPENAI_ENDPOINT", "AZURE_OPENAI_API_VERSION", "AZURE_OPENAI_API_KEY",
     "AZURE_EMBED_DEPLOYMENT", "AZURE_CHAT_DEPLOYMENT"}

OpenAISettings ==
    {"AZURE_OPENAI_ENDPOINT", "AZURE_OPENAI_API_VERSION", "AZURE_OPENAI_API_KEY"}

SearchSettings ==
    {"AZURE_SEARCH_ENDPOINT", "AZURE_SEARCH_INDEX", "AZURE_SEARCH_API_KEY"}

\* a call can be answered only when the settings it is built from are set
CanEmbed    == OpenAISettings \cup {"AZURE_EMBED_DEPLOYMENT"} \subseteq env
CanSearch   == SearchSettings \subseteq env
CanComplete == OpenAISettings \cup {"AZURE_CHAT_DEPLOYMENT"} \subseteq env

\* what the user can have typed: nothing, or a question
Prompts == {<<>>, <<"o", "i", "l", "?">>}

\* the record of chunk j (1-based) of an ingested manual, as the index holds it
IndexedRecord(j) ==
    LET text == <<"t">> \o Decimal(j)
    IN  [id |-> SafeId(<<"a", ".", "p", "d", "f">>, j - 1),
         content |-> text, contentVector |-> VectorOf(text)]

\* the index the queries run against
AppIndexes == {{IndexedRecord(j) : j \in 1..n} : n \in 0..MaxIndexed}

\* sequences of distinct elements of S of length at most n
RECURSIVE Rankings(_, _)
Rankings(S, n) ==
    IF n = 0 \/ S = {} THEN {<<>>}
    ELSE {<<>>} \cup UNION {{<<x>> \o r : r \in Rankings(S \ {x}, n - 1)} : x \in S}

\* the body vector_search of app.py posts
SearchBodyApp(vector, kk) ==
    [top |-> kk,
     vectorQueries |-> <<[fields |-> "contentVector", vector |-> vector,
                          k |-> kk, kind |-> "vector", exhaustive |-> FALSE]>>]

\* the body vector_search of vector_searchrest.py posts
SearchBodyRest(vector, kk) ==
    [search |-> "*", select |-> "id,content",
     vectorQueries |-> <<[vector |-> vector, fields |-> "contentVector",
                          k |-> kk, kind |-> "vector"]>>]

\* a hit as the service's JSON gives it: the fields, and a score
JsonHit(r, rank) == [id |-> r.id, content |-> r.content, score |-> 100 - rank]

\* the answers of the search service to a body: an HTTP error, a reply
\* without a "value" member, or a reply whose "value" ranks distinct
\* records of the index, most similar first: at most body.top of them when
\* the body sets "top", else as many as the service's page holds
SearchResponses(body, idx) ==
    LET limit == IF "top" \in DOMAIN body THEN body.top ELSE Cardinality(idx)
        most  == IF limit < Cardinality(idx) THEN limit ELSE Cardinality(idx)
    IN  {[ok |-> FALSE, json |-> [error |-> "failed"]],
         [ok |-> TRUE,  json |-> [count |-> 0]]}
        \cup {[ok |-> TRUE,
               json |-> [value |-> [p \in 1..Len(r) |-> JsonHit(r[p], p)]]]
                 : r \in Rankings(idx, most)}

\* resp.json().get("value", [])
JsonValue(json) == IF "value" \in DOMAIN json THEN json.value ELSE <<>>

\* [(h["id"], h["content"]) for h in hits]
\* (variant: the hits come out in reverse order)
HitsOfReversed(value) ==
    [p \in 1..Len(value) |->
        <<value[Len(value) + 1 - p].id, value[Len(value) + 1 - p].content>>]

HitsOf(value) == [p \in 1..Len(value) |-> <<value[p].id, value[p].content>>]

\* h["content"].replace("\n", " ")[:200]
SnippetOf(text) ==
    LET flat == [j \in 1..Len(text) |-> IF text[j] = "\n" THEN " " ELSE text[j]]
    IN  SubSeq(flat, 1, IF Len(flat) < SnippetLen THEN Len(flat) ELSE SnippetLen)

\* what vector_searchrest.py prints, one entry per hit: the id and the snippet
PrintedOf(value) ==
    [p \in 1..Len(value) |-> <<value[p].id, SnippetOf(value[p].content)>>]

\* what vector_search of vector_searchrest.py returns: it has no return
\* statement, so None (a returned list would be [items |-> the list])
RestReturn(value) == NoValue

NoDocsMessage ==
    <<"S", "o", "r", "r", "y", ",", " ", "I", " ", "c", "o", "u", "l", "d",
      "n", "'", "t", " ", "f", "i", "n", "d", " ", "a", "n", "y", " ", "r",
      "e", "l", "e", "v", "a", "n", "t", " ", "d", "o", "c", "u", "m", "e",
      "n", "t", "a", "t", "i", "o", "n", " ", "t", "o", " ", "a", "n", "s",
      "w", "e", "r", " ", "t", "h", "a", "t", ".">>

SystemContent ==
    "You are a certified Royal Enfield mechanic. Answer clearly and step-by-step."

ContextHeader ==
    <<"C", "o", "n", "t", "e", "x", "t", ":", "\n">>

QuestionHeader ==
    <<"Q", "u", "e", "s", "t", "i", "o", "n", ":", " ">>

AnswerDirective ==
    <<"A", "n", "s", "w", "e", "r", " ", "i", "n", " ", "a", " ", "c", "o",
      "n", "c", "i", "s", "e", ",", " ", "s", "t", "e", "p", "-", "b", "y",
      "-", "s", "t", "e", "p", " ", "f", "o", "r", "m", "a", "t", ".">>

BlankLine == <<"\n", "\n">>

\* f"[{i}] {text}", i the 0-based position
\* (variant: the label counts from 1)
ContextEntryOneBased(i, text) == <<"[">> \o Decimal(i + 1) \o <<"]", " ">> \o text

ContextEntry(i, text) == <<"[">> \o Decimal(i) \o <<"]", " ">> \o text

\* "\n\n".join(f"[{i}] {text}" for i, (_, text) in enumerate(chunks))
RECURSIVE JoinContext(_, _)
JoinContext(chunks, n) ==
    IF n = 0 THEN <<>>
    ELSE IF n = 1 THEN ContextEntry(0, chunks[1][2])
    ELSE JoinContext(chunks, n - 1) \o BlankLine \o ContextEntry(n - 1, chunks[n][2])

ContextOf(chunks) == JoinContext(chunks, Len(chunks))

\* messages=[system, user]
MessagesOf(question, chunks) ==
    << [role |-> "system", content |-> SystemContent],
       [role |-> "user",
        content |-> ContextHeader \o ContextOf(chunks) \o BlankLine
                      \o QuestionHeader \o question \o BlankLine
                      \o AnswerDirective] >>

Whitespace == {" ", "\n", "\t"}

\* str.strip()
RECURSIVE Strip(_)
Strip(s) ==
    IF s = <<>> THEN s
    ELSE IF Head(s) \in Whitespace THEN Strip(Tail(s))
    ELSE IF s[Len(s)] \in Whitespace THEN Strip(SubSeq(s, 1, Len(s) - 1))
    ELSE s

\* texts the completion endpoint may answer with
CompletionTexts == {<<" ", "1", ".", " ", "D", "r", "a", "i", "n", "\n">>,
                    <<"A", "s", "k">>}

\* the "Ask" button is pressed: a script run with the button set.  An
\* empty prompt ends the run at once; otherwise vector_search begins
\* (variant: the "if prompt" test is missing)
AskPressedIgnoresEmptyCheck ==
    /\ apc = "idle" /\ rpc = "idle"
    /\ Len(history) < MaxTurns
    /\ \E q \in Prompts, kk \in KMin..KMax :
         /\ prompt' = q /\ k' = kk
         /\ apc' = "embed" /\ outcome' = "running"
    /\ calls' = <<>>
    /\ emb' = NoValue /\ hits' = <<>> /\ messages' = <<>> /\ answer' = <<>>
    /\ served' = <<>>
    /\ UNCHANGED <<history, rpc, rprinted, rret, rserved, env, index>>
    /\ UNCHANGED <<idVars, ingestOnly>>

AskPressed ==
    /\ apc = "idle" /\ rpc = "idle"
    /\ Len(history) < MaxTurns
    /\ \E q \in Prompts, kk \in KMin..KMax :
         /\ prompt' = q /\ k' = kk
         /\ IF q # <<>>
            THEN apc' = "embed" /\ outcome' = "running"
            ELSE apc' = "idle"  /\ outcome' = "ignored"
    /\ calls' = <<>>
    /\ emb' = NoValue /\ hits' = <<>> /\ messages' = <<>> /\ answer' = <<>>
    /\ served' = <<>>
    /\ UNCHANGED <<history, rpc, rprinted, rret, rserved, env, index>>
    /\ UNCHANGED <<idVars, ingestOnly>>

\* vector_search, line 33: the query is embedded
EmbedQuery ==
    /\ apc = "embed"
    /\ \E ok \in {b \in BOOLEAN : b => CanEmbed} :
         /\ calls' = Append(calls, Call("embed", ok))
         /\ IF ok
            THEN /\ emb' = EmbeddingsCreate(<<prompt>>).data[1].embedding
                 /\ apc' = "search" /\ UNCHANGED outcome
            ELSE /\ apc' = "idle" /\ outcome' = "error" /\ UNCHANGED emb
    /\ UNCHANGED <<history, prompt, k, hits, messages, answer, served,
                   rpc, rprinted, rret, rserved, env, index>>
    /\ UNCHANGED <<idVars, ingestOnly>>

\* vector_search, lines 36-62, then answer_with_gpt4o up to the completion
\* call: with no hit it returns the fixed message and the turn is appended
\* (variant: answer_with_gpt4o lacks the "if not chunks" return)
SearchIndexNoEmptyCheck ==
    /\ apc = "search"
    /\ \E resp \in {r \in SearchResponses(SearchBodyApp(emb, k), index) :
                        r.ok => CanSearch} :
         /\ calls' = Append(calls, Call("search", resp.ok))
         /\ IF ~resp.ok
            THEN /\ apc' = "idle" /\ outcome' = "error"
                 /\ UNCHANGED <<hits, messages, answer, history, served>>
            ELSE LET chunks == HitsOf(JsonValue(resp.json))
                 IN  /\ served' = JsonValue(resp.json)
                     /\ hits' = chunks
                     /\ UNCHANGED <<answer, history, outcome>>
                     /\ messages' = MessagesOf(prompt, chunks)
                     /\ apc' = "complete"
    /\ UNCHANGED <<prompt, k, emb, rpc, rprinted, rret, rserved, env, index>>
    /\ UNCHANGED <<idVars, ingestOnly>>

SearchIndex ==
    /\ apc = "search"
    /\ \E resp \in {r \in SearchResponses(SearchBodyApp(emb, k), index) :
                        r.ok => CanSearch} :
         /\ calls' = Append(calls, Call("search", resp.ok))
         /\ IF ~resp.ok
            THEN /\ apc' = "idle" /\ outcome' = "error"
                 /\ UNCHANGED <<hits, messages, answer, history, served>>
            ELSE LET chunks == HitsOf(JsonValue(resp.json))
                 IN  /\ served' = JsonValue(resp.json)
                     /\ hits' = chunks
                     /\ IF chunks = <<>>
                        THEN /\ answer' = NoDocsMessage
                             /\ history' = Append(history, <<prompt, NoDocsMessage>>)
                             /\ apc' = "idle" /\ outcome' = "answered"
                             /\ UNCHANGED messages
                        ELSE /\ messages' = MessagesOf(prompt, chunks)
                             /\ apc' = "complete"
                             /\ UNCHANGED <<answer, history, outcome>>
    /\ UNCHANGED <<prompt, k, emb, rpc, rprinted, rret, rserved, env, index>>
    /\ UNCHANGED <<idVars, ingestOnly>>

\* answer_with_gpt4o, lines 94-100, and the append of line 125
Complete ==
    /\ apc = "complete"
    /\ \E ok \in {b \in BOOLEAN : b => CanComplete} :
         /\ calls' = Append(calls, Call("completion", ok))
         /\ IF ok
            THEN \E text \in CompletionTexts :
                   /\ answer' = Strip(text)
                   /\ history' = Append(history, <<prompt, Strip(text)>>)
                   /\ outcome' = "answered"
            ELSE outcome' = "error" /\ UNCHANGED <<answer, history>>
    /\ apc' = "idle"
    /\ UNCHANGED <<prompt, k, emb, hits, messages, served,
                   rpc, rprinted, rret, rserved, env, index>>
    /\ UNCHANGED <<idVars, ingestOnly>>

\* vector_searchrest.py is started, and embeds its test query (line 28)
RestEmbed ==
    /\ rpc = "idle" /\ apc = "idle"
    /\ \E ok \in {b \in BOOLEAN : b => CanEmbed} :
         rpc' = IF ok THEN "search" ELSE "crashed"
    /\ UNCHANGED <<rprinted, rret, rserved>>
    /\ UNCHANGED <<apc, history, prompt, k, emb, hits, messages, answer, outcome,
                   served, env, index, calls>>
    /\ UNCHANGED <<idVars, ingestOnly>>

\* vector_searchrest.py, lines 32-65: post, print the hits, fall off the end
RestSearch ==
    /\ rpc = "search"
    /\ \E resp \in {r \in SearchResponses(
                            SearchBodyRest(VectorOf(<<"o", "i", "l", "?">>), RestK),
                            index) : r.ok => CanSearch} :
         IF ~resp.ok
         THEN rpc' = "crashed" /\ UNCHANGED <<rprinted, rret, rserved>>
         ELSE /\ rserved' = JsonValue(resp.json)
              /\ rprinted' = PrintedOf(JsonValue(resp.json))
              /\ rret' = RestReturn(JsonValue(resp.json))
              /\ rpc' = "returned"
    /\ UNCHANGED <<apc, history, prompt, k, emb, hits, messages, answer, outcome,
                   served, env, index, calls>>
    /\ UNCHANGED <<idVars, ingestOnly>>

\* the script's process ends
RestExit ==
    /\ rpc \in {"returned", "crashed"}
    /\ rpc' = "idle" /\ rprinted' = <<>> /\ rret' = NoValue /\ rserved' = <<>>
    /\ UNCHANGED <<apc, history, prompt, k, emb, hits, messages, answer, outcome,
                   served, env, index, calls>>
    /\ UNCHANGED <<idVars, ingestOnly>>

AppNext ==
    AskPressed \/ EmbedQuery \/ SearchIndex \/ Complete
        \/ RestEmbed \/ RestSearch \/ RestExit

\* a session of the app has begun and the script is not running
AppInit ==
    /\ env \in EnvChoices(AppSettings)
    /\ index \in AppIndexes
    /\ calls = <<>>
    /\ apc = "idle" /\ history = <<>> /\ prompt = <<>> /\ k = KDefault
    /\ emb = NoValue /\ hits = <<>> /\ messages = <<>> /\ answer = <<>>
    /\ outcome = "none"
    /\ rpc = "idle" /\ rprinted = <<>> /\ rret = NoValue
    /\ served = <<>> /\ rserved = <<>>
    /\ container = <<>> /\ index0 = {} /\ ipc = "off"
    /\ bi = 1 /\ docs = <<>> /\ di = 1 /\ ci = 1 /\ batch = <<>>
    /\ qpc = "off" /\ qDoc = <<>> /\ qIdx = 0 /\ qId = <<>>

SpecApp == AppInit /\ [][AppNext]_vars

(* ------------------------------ claims -------------------------------- *)
IngestTerminal ==
    {"exit1", "crashed_list", "crashed_download", "crashed_extract",
     "crashed_embed", "crashed_upload", "done"}

\* the chunks of the documents before document d
RECURSIVE ChunksBefore(_, _)
ChunksBefore(dcs, d) ==
    IF d <= 1 THEN 0
    ELSE ChunksBefore(dcs, d - 1) + Len(SplitText(dcs[d - 1].text))

TotalChunks == ChunksBefore(docs, Len(docs) + 1)

UploadCalls == {p \in 1..Len(calls) : calls[p].op = "upload_documents"}

\* C2: the documents of one ingestion run have distinct names, so no two
\* records of the batch share an id.
C2_ChunkIdsInjective ==
    (\A d, e \in 1..Len(docs) : d # e => docs[d].id # docs[e].id)
        => \A m, n \in 1..Len(batch) : m # n => batch[m].id # batch[n].id

\* C3: the id derived for any document id and chunk index is non-empty and
\* made of characters of [A-Za-z0-9_-] only.
C3_RecordIdSafe ==
    qpc = "derived" =>
        /\ Len(qId) > 0
        /\ \A j \in 1..Len(qId) : qId[j] \in AllowedChars

\* C3 witness: the id of a chunk with a two-digit index was derived from a
\* raw id that held a character outside the allowed set.
C3_UnsafeRawIdDerived ==
    /\ qpc = "derived"
    /\ qIdx >= 10
    /\ \E j \in 1..Len(RawId(qDoc, qIdx)) : RawId(qDoc, qIdx)[j] \notin AllowedChars
    /\ \E j \in 1..Len(qDoc) : qDoc[j] \in {" ", "("}

\* C4: a run in which every setting is present and every call to a service
\* succeeds ends with the chunks of every readable .pdf blob of the
\* container uploaded, whatever other blobs are malformed.
C4_MalformedPdfOnlySkipped ==
    (/\ ipc \in IngestTerminal
     /\ env = IngestSettings
     /\ \A p \in 1..Len(calls) : calls[p].ok)
        => \A b \in 1..Len(container) :
             (IsPdfName(container[b].name) /\ container[b].data.valid)
                => \A j \in 1..Len(SplitText(ExtractText(container[b].data))) :
                     /\ ipc = "done"
                     /\ \E p \in 1..Len(batch) :
                          batch[p].content
                              = SplitText(ExtractText(container[b].data))[j]

\* C8: the batch holds, for document d and its chunk j (1-based), at
\* position (chunks of earlier documents) + j, the record with the id of
\* index j-1, the chunk's text and the embedding of that text; it holds
\* nothing else, and at the upload it holds all of them; the documents are
\* the .pdf blobs in listing order.
C8_BatchFollowsChunks ==
    /\ \A d \in 1..Len(docs) : \A j \in 1..Len(SplitText(docs[d].text)) :
         LET p    == ChunksBefore(docs, d) + j
             text == SplitText(docs[d].text)[j]
         IN  p <= Len(batch) =>
                batch[p] = [id |-> Sanitize(SplitExtBase(docs[d].id)
                                              \o ChunkInfix \o Decimal(j - 1)),
                            content |-> text,
                            contentVector |-> VectorOf(text)]
    /\ Len(batch) <= TotalChunks
    /\ (ipc = "chunk" /\ di <= Len(docs))
          => Len(batch) = ChunksBefore(docs, di) + ci - 1
    /\ (ipc \in {"done", "crashed_upload"} \/ (ipc = "chunk" /\ di > Len(docs)))
          => /\ Len(batch) = TotalChunks
             /\ [d \in 1..Len(docs) |-> docs[d].id]
                  = LET pdfs == SelectSeq(container, LAMBDA b : IsPdfName(b.name))
                    IN  [d \in 1..Len(pdfs) |-> pdfs[d].name]

\* C8 witness: a finished run over two documents, the first of two chunks.
C8_TwoDocsUploaded ==
    /\ ipc = "done"
    /\ Len(docs) = 2
    /\ Len(SplitText(docs[1].text)) = 2
    /\ Len(SplitText(docs[2].text)) = 1
    /\ Len(batch) = 3

\* C10: at most one upload_documents call is issued, as the last call, after
\* every blob was fetched and every chunk embedded; a run that ended in the
\* validation, the listing, a download, an extraction or an embedding
\* issued none, and the index is as it was before the run.
C10_SingleUploadAtEnd ==
    /\ Cardinality(UploadCalls) <= 1
    /\ \A p \in UploadCalls :
         /\ p = Len(calls)
         /\ \A q \in 1..(p - 1) : calls[q].ok
         /\ bi > Len(container)
         /\ Cardinality({q \in 1..Len(calls) : calls[q].op = "embed"}) = TotalChunks
         /\ Len(batch) = TotalChunks
    /\ ipc \in {"exit1", "crashed_list", "crashed_download", "crashed_extract",
                "crashed_embed"}
          => UploadCalls = {} /\ index = index0
    /\ index # index0 => ipc = "done"

\* C10 witness: an embedding call failed after a chunk had been embedded,
\* with a record already in the index.
C10_FailedAfterEmbedding ==
    /\ ipc = "crashed_embed"
    /\ Len(batch) >= 1
    /\ index0 # {}

(* ------------------------- claims on the app -------------------------- *)
CallOps(cs) == [p \in 1..Len(cs) |-> cs[p].op]

CompletionCalls == {p \in 1..Len(calls) : calls[p].op = "completion"}

SearchAnswered == \E p \in 1..Len(calls) : calls[p].op = "search" /\ calls[p].ok

\* C1: a request whose search returned no hit is answered with the fixed
\* message and issues no completion call; the completion endpoint is
\* called only with hits.
C1_NoHitsNoCompletion ==
    /\ (SearchAnswered /\ hits = <<>>) =>
          /\ apc = "idle" /\ outcome = "answered"
          /\ answer = NoDocsMessage
          /\ history[Len(history)] = <<prompt, NoDocsMessage>>
          /\ CompletionCalls = {}
    /\ (apc = "complete" \/ CompletionCalls # {}) => hits # <<>>

\* C1 witness: the service answered a search of a non-empty index with no hit.
C1_AnsweredWithoutHits ==
    /\ apc = "idle" /\ outcome = "answered"
    /\ hits = <<>>
    /\ index # {}
    /\ Len(history) = 2

\* C5 as claimed: under both request shapes vector_search returns the hits
\* the service ranked, in its order, at most k of them.
C5_BothShapesReturnHits ==
    /\ SearchAnswered =>
          /\ hits = [p \in 1..Len(served) |-> <<served[p].id, served[p].content>>]
          /\ Len(hits) <= k
    /\ rpc = "returned" =>
          /\ "items" \in DOMAIN rret
          /\ rret.items = [p \in 1..Len(rserved) |->
                              <<rserved[p].id, rserved[p].content>>]
          /\ Len(rret.items) <= RestK

\* C5 amended: vector_search of app.py returns the hits the service ranked,
\* in its order, at most k of them, k in 1..8, and an empty sequence without
\* an error when the service reports none; vector_search of
\* vector_searchrest.py returns None, having printed one entry per hit the
\* service returned, in the service's order, and nothing when there is none.
C5_AppReturnsRankedHits ==
    /\ SearchAnswered =>
          /\ Len(hits) = Len(served)
          /\ \A p \in 1..Len(served) :
                hits[p] = <<served[p].id, served[p].content>>
          /\ \A p, q \in 1..Len(served) : p < q => served[p].score > served[q].score
          /\ Len(hits) <= k
          /\ k \in KMin..KMax
          /\ served = <<>> => (hits = <<>> /\ outcome = "answered")
    /\ rpc = "returned" =>
          /\ rret = NoValue
          /\ Len(rprinted) = Len(rserved)
          /\ \A p \in 1..Len(rserved) :
                rprinted[p] = <<rserved[p].id, SnippetOf(rserved[p].content)>>

\* C5 witness: with k = 1 and two records in the index the app got one hit.
C5_TopOneOfTwo ==
    /\ apc = "complete"
    /\ k = 1
    /\ Cardinality(index) >= 2
    /\ Len(hits) = 1

\* C6: with a required setting missing or empty, no embedding, search or
\* completion call of the app is carried out.
C6_MissingSettingNoCall ==
    env # AppSettings => \A p \in 1..Len(calls) : ~calls[p].ok

\* the pieces of s between blank lines ("\n\n")
RECURSIVE SplitBlankLines(_)
SplitBlankLines(s) ==
    LET at == {j \in 1..(Len(s) - 1) : s[j] = "\n" /\ s[j + 1] = "\n"}
    IN  IF at = {} THEN <<s>>
        ELSE LET j == CHOOSE m \in at : \A n \in at : m <= n
             IN  <<SubSeq(s, 1, j - 1)>> \o SplitBlankLines(SubSeq(s, j + 2, Len(s)))

\* C7: the completion request has two messages, system then user; the user
\* message is "Context:", the context, a blank line, the question and the
\* directive; the context read back by splitting at blank lines has one
\* entry per hit, entry i (0-based) being "[i] " and the content of hit i.
C7_ContextListsHits ==
    apc = "complete" =>
        /\ hits # <<>>
        /\ Len(messages) = 2
        /\ messages[1] = [role |-> "system", content |-> SystemContent]
        /\ messages[2].role = "user"
        /\ LET text    == messages[2].content
               trailer == BlankLine \o QuestionHeader \o prompt \o BlankLine
                            \o AnswerDirective
               from    == Len(ContextHeader) + 1
               to      == Len(text) - Len(trailer)
               entries == SplitBlankLines(SubSeq(text, from, to))
           IN  /\ to >= from
               /\ SubSeq(text, 1, from - 1) = ContextHeader
               /\ SubSeq(text, to + 1, Len(text)) = trailer
               /\ Len(entries) = Len(hits)
               /\ \A p \in 1..Len(hits) :
                    entries[p] = <<"[">> \o Decimal(p - 1) \o <<"]", " ">> \o hits[p][2]

\* C7 witness: a completion request is about to be sent with two hits.
C7_TwoHitsInContext ==
    /\ apc = "complete"
    /\ Len(hits) = 2
    /\ hits[1] # hits[2]

\* C9: the history changes only by the append of one (question, answer)
\* turn at the end of a script run with a non-empty question whose calls
\* were embed, search and (with hits) completion, in that order, all
\* answered; the calls of any run are a prefix of that order; a run that
\* was ignored or failed leaves the history as it was, and one that was
\* answered appends.
C9_HistoryAppendOnly ==
    [][ /\ history' # history =>
              /\ history' = Append(history, <<prompt, answer'>>)
              /\ prompt # <<>> /\ prompt' = prompt
              /\ apc' = "idle" /\ outcome' = "answered"
              /\ CallOps(calls') = IF hits' = <<>> THEN <<"embed", "search">>
                                   ELSE <<"embed", "search", "completion">>
              /\ \A p \in 1..Len(calls') : calls'[p].ok
        /\ \E n \in 0..3 :
              CallOps(calls') = SubSeq(<<"embed", "search", "completion">>, 1, n)
        /\ \A p \in 1..(Len(calls') - 1) : calls'[p].ok
        /\ outcome' \in {"ignored", "error"} => history' = history
        /\ (apc # "idle" /\ apc' = "idle" /\ outcome' = "answered")
              => Len(history') = Len(history) + 1
      ]_vars

\* C9 witness: after one turn, a request failed at the completion call.
C9_FailedAfterATurn ==
    /\ apc = "idle" /\ outcome = "error"
    /\ Len(history) = 1
    /\ Len(calls) = 3

====
